---- MODULE Spec2Model ----
(***************************************************************************)
(* GameTracker: the per-user game library of the Express/Mongoose backend  *)
(* (backend/routes/games.js and the User model).  One user document is     *)
(* modelled: its embedded gameLibrary array and its stats sub-document.    *)
(* Requests are handled one at a time: req is the request in flight, res   *)
(* its response, listing the array of entries a read answers with.  A      *)
(* handler that mutates the library loads the document,                    *)
(* changes it, recomputes stats and saves it, which is one action here.    *)
(* handled keeps, for the request just answered, the route, whether its    *)
(* target entry was found and was completed, and the status of its body.   *)
(*                                                                         *)
(* Representation.  userRating and stats.averageRating are kept in tenths  *)
(* (userRating 1.5 is 15, an average of 1.3 is 13).  A notes string is     *)
(* represented by its length.  Dates are ticks of the clock `now`.  null   *)
(* in a numeric field is Null.  The catalogue metadata copied at add time  *)
(* (background_image, released, rating, platforms, genres) is not read by  *)
(* any handler and is left out.                                            *)
(*                                                                         *)
(* Specifications.  Spec: the library routes, one request at a time.       *)
(* SpecConc: the mutating routes interleaved at their awaits.  SpecAccount:*)
(* the password route beside the library routes.  SpecClient: the search   *)
(* view of src/App.js.  SpecGameSearch: the search view without the modal. *)
(***************************************************************************)
EXTENDS Integers, Sequences, FiniteSets, TLC

VARIABLES gameLibrary, stats, now, req, res, handled, listing

vars == <<gameLibrary, stats, now, req, res, handled, listing>>

\* the stored document's version key and the handlers in flight, for the
\* specification in which handlers interleave at their awaits
VARIABLES version, workers

concVars == <<version, workers>>

\* the React client: the state hooks of the search view, the pending
\* timers, the fetches in flight, and the record of the last search action
VARIABLES searchTerm, games, loading, error, selectedGame, gameDetails,
          detailsLoading, searchTimeout, timers, fetches, detailFetches,
          issued, latest

clientVars == <<searchTerm, games, loading, error, selectedGame, gameDetails,
                detailsLoading, searchTimeout, timers, fetches, detailFetches,
                issued, latest>>

\* the stored password of the user document: the bcrypt hash
VARIABLE password

allVars == <<vars, concVars, clientVars, password>>

(***************************************************************************)
(* Bounds of the exploration                                               *)
(***************************************************************************)
MaxLib == 2
MaxTime == 2
MaxWorkers == 2
MaxVersion == 3
MaxIssued == 4

(***************************************************************************)
(* Program constants                                                       *)
(***************************************************************************)
Null == -1
NaN == -2
RatingScale == 10
MinRating == 1
MaxRating == 10
MaxNotes == 500
RecentCount == 5
MinSearchLength == 2
MinPassword == 6

Statuses == {"playing", "completed", "dropped", "plan-to-play"}

(***************************************************************************)
(* JSON values of a request: a number, a string (a sequence of            *)
(* characters) or undefined (the key is missing).                          *)
(***************************************************************************)
Num(n) == [t |-> "number", n |-> n, s |-> <<>>]
Str(s) == [t |-> "string", n |-> 0, s |-> s]
Undefined == [t |-> "undefined", n |-> 0, s |-> <<>>]

Digits == {"0", "1", "2", "3", "4", "5", "6", "7", "8", "9"}

DigitVal(c) ==
  CASE c = "0" -> 0 [] c = "1" -> 1 [] c = "2" -> 2 [] c = "3" -> 3
    [] c = "4" -> 4 [] c = "5" -> 5 [] c = "6" -> 6 [] c = "7" -> 7
    [] c = "8" -> 8 [] c = "9" -> 9

\* value of the longest prefix of digits of s, given the value acc read so far
RECURSIVE DigitPrefix(_, _)
DigitPrefix(s, acc) ==
  IF s = <<>> \/ Head(s) \notin Digits THEN acc
  ELSE DigitPrefix(Tail(s), acc * 10 + DigitVal(Head(s)))

\* parseInt(req.params.gameId): the leading digits, NaN when there are none
parseInt(s) ==
  IF s = <<>> \/ Head(s) \notin Digits THEN NaN ELSE DigitPrefix(s, 0)

\* Number(s) as Joi's number() and Mongoose's Number cast convert a string:
\* every character must be a digit
ToNumber(s) ==
  IF s # <<>> /\ \A i \in 1..Len(s) : s[i] \in Digits THEN DigitPrefix(s, 0)
  ELSE NaN

\* the Number cast of the gameEntrySchema on a pushed gameId
CastGameId(v) == IF v.t = "number" THEN v.n ELSE ToNumber(v.s)

(***************************************************************************)
(* Validation schemas: the message of the first error, or "" when the body *)
(* is accepted.                                                            *)
(***************************************************************************)
\* addGameSchema without the list of allowed statuses
addGameSchemaAnyStatus(body) ==
  IF body.gameId.t = "undefined" THEN "\"gameId\" is required"
  ELSE IF body.gameId.t = "string" /\ ToNumber(body.gameId.s) = NaN
    THEN "\"gameId\" must be a number"
  ELSE IF body.name = "undefined" THEN "\"name\" is required"
  ELSE IF body.status = "undefined" THEN "\"status\" is required"
  ELSE ""

addGameSchema(body) ==
  IF body.gameId.t = "undefined" THEN "\"gameId\" is required"
  ELSE IF body.gameId.t = "string" /\ ToNumber(body.gameId.s) = NaN
    THEN "\"gameId\" must be a number"
  ELSE IF body.name = "undefined" THEN "\"name\" is required"
  ELSE IF body.status = "undefined" THEN "\"status\" is required"
  ELSE IF body.status \notin Statuses THEN "\"status\" must be one of the allowed values"
  ELSE ""

UpdateKeys == {"status", "userRating", "notes"}

\* updateGameSchema without the upper limit of userRating
updateGameSchemaNoMax(body) ==
  IF "status" \in DOMAIN body /\ body.status \notin Statuses
    THEN "\"status\" must be one of the allowed values"
  ELSE IF "userRating" \in DOMAIN body /\ body.userRating # Null
          /\ body.userRating < MinRating * RatingScale
    THEN "\"userRating\" must be greater than or equal to 1"
  ELSE IF "notes" \in DOMAIN body /\ body.notes > MaxNotes
    THEN "\"notes\" length must be less than or equal to 500 characters long"
  ELSE IF DOMAIN body \ UpdateKeys # {} THEN "key is not allowed"
  ELSE ""

updateGameSchema(body) ==
  IF "status" \in DOMAIN body /\ body.status \notin Statuses
    THEN "\"status\" must be one of the allowed values"
  ELSE IF "userRating" \in DOMAIN body /\ body.userRating # Null
          /\ body.userRating < MinRating * RatingScale
    THEN "\"userRating\" must be greater than or equal to 1"
  ELSE IF "userRating" \in DOMAIN body /\ body.userRating # Null
          /\ body.userRating > MaxRating * RatingScale
    THEN "\"userRating\" must be less than or equal to 10"
  ELSE IF "notes" \in DOMAIN body /\ body.notes > MaxNotes
    THEN "\"notes\" length must be less than or equal to 500 characters long"
  ELSE IF DOMAIN body \ UpdateKeys # {} THEN "key is not allowed"
  ELSE ""

(***************************************************************************)
(* User model helpers                                                      *)
(***************************************************************************)
\* hasGame whose scan stops one entry short
hasGameButLast(lib, v) ==
  \E i \in 1..(Len(lib) - 1) : v.t = "number" /\ lib[i].gameId = v.n

\* userSchema.methods.hasGame: strict equality of the argument, as passed,
\* with the stored numbers; a string is never === a number
hasGame(lib, v) ==
  \E i \in 1..Len(lib) : v.t = "number" /\ lib[i].gameId = v.n

\* findIndex whose miss (-1) is used as an index: the last entry
findIndexNoMiss(lib, id) ==
  IF id # NaN /\ \E i \in 1..Len(lib) : lib[i].gameId = id
  THEN CHOOSE i \in 1..Len(lib) :
         /\ lib[i].gameId = id
         /\ \A j \in 1..(i - 1) : lib[j].gameId # id
  ELSE Len(lib)

\* index of the first entry whose gameId === id, 0 when there is none
\* (Array.prototype.find / findIndex; NaN === x is false)
findIndex(lib, id) ==
  IF id # NaN /\ \E i \in 1..Len(lib) : lib[i].gameId = id
  THEN CHOOSE i \in 1..Len(lib) :
         /\ lib[i].gameId = id
         /\ \A j \in 1..(i - 1) : lib[j].gameId # id
  ELSE 0

getGame(lib, id) == findIndex(lib, id)

RECURSIVE SumRatings(_)
SumRatings(s) == IF s = <<>> THEN 0 ELSE Head(s).userRating + SumRatings(Tail(s))

\* Math.floor in place of Math.round
MathFloor(total, n) == total \div n

\* Math.round(x * 10) for x = total / n, in tenths: half rounds up
MathRound(total, n) == (2 * total + n) \div (2 * n)

updateStats(lib) ==
  LET completedGames == SelectSeq(lib, LAMBDA g : g.status = "completed")
      ratedGames == SelectSeq(completedGames, LAMBDA g : g.userRating # Null)
  IN [totalGames |-> Len(lib),
      completedGames |-> Len(completedGames),
      averageRating |-> IF Len(ratedGames) > 0
                        THEN MathRound(SumRatings(ratedGames), Len(ratedGames))
                        ELSE 0]

\* a sub-document built from a pushed body, with the schema defaults
NewEntry(body, t) ==
  [gameId |-> CastGameId(body.gameId),
   name |-> body.name,
   status |-> body.status,
   userRating |-> Null,
   dateAdded |-> t,
   dateCompleted |-> Null,
   notes |-> 0]

\* the new entry put in front of the array
unshift(lib, entry) == <<entry>> \o lib

\* user.gameLibrary.push(gameData)
push(lib, entry) == Append(lib, entry)

\* a replacing update: a key missing from the body falls back to its default
MergeReplace(game, body) ==
  [k \in DOMAIN game |->
     IF k \in DOMAIN body THEN body[k]
     ELSE IF k = "userRating" THEN Null
     ELSE IF k = "notes" THEN 0
     ELSE game[k]]

\* Object.keys(updateData).forEach(key => game[key] = updateData[key])
Merge(game, body) ==
  [k \in DOMAIN game |-> IF k \in DOMAIN body THEN body[k] ELSE game[k]]

BodyStatus(body) == IF "status" \in DOMAIN body THEN body.status ELSE "undefined"

\* the two branches of the completion date exchanged
CompletionDateSwapped(merged, body, t) ==
  IF (IF "status" \in DOMAIN body THEN body.status ELSE "undefined") = "completed"
     /\ merged.status # "completed" THEN Null
  ELSE IF (IF "status" \in DOMAIN body THEN body.status ELSE "undefined") # "completed"
    THEN t
  ELSE merged.dateCompleted

\* the completion date after the merge: the test reads game.status after
\* the merge has already assigned it
CompletionDate(merged, body, t) ==
  IF BodyStatus(body) = "completed" /\ merged.status # "completed" THEN t
  ELSE IF BodyStatus(body) # "completed" THEN Null
  ELSE merged.dateCompleted

ApplyUpdate(game, body, t) ==
  LET merged == Merge(game, body)
  IN [merged EXCEPT !.dateCompleted = CompletionDate(merged, body, t)]

\* splice(gameIndex) without a delete count: drops the rest of the array
RemoveFrom(lib, i) == SubSeq(lib, 1, i - 1)

\* splice(gameIndex, 1)
RemoveAt(lib, i) == SubSeq(lib, 1, i - 1) \o SubSeq(lib, i + 1, Len(lib))

(***************************************************************************)
(* GET /library: the status filter and the sort of the loaded array        *)
(***************************************************************************)
\* a destructured query parameter with its default value
Default(v, d) == IF v = "undefined" THEN d ELSE v

\* x || 0
OrZero(x) == IF x = Null THEN 0 ELSE x

\* the collation rank of a catalogue name
NameRank(name) == IF name = "a" THEN 1 ELSE IF name = "b" THEN 2 ELSE 0

\* a.localeCompare(b)
localeCompare(a, b) ==
  IF NameRank(a) < NameRank(b) THEN -1
  ELSE IF NameRank(a) > NameRank(b) THEN 1 ELSE 0

\* the switch on sortBy; new Date(null || 0) is the epoch, tick 0
comparison(a, b, sortBy) ==
  CASE sortBy = "name" -> localeCompare(a.name, b.name)
    [] sortBy = "rating" -> OrZero(a.userRating) - OrZero(b.userRating)
    [] sortBy = "dateAdded" -> a.dateAdded - b.dateAdded
    [] sortBy = "dateCompleted" ->
         OrZero(a.dateCompleted) - OrZero(b.dateCompleted)
    [] OTHER -> a.dateAdded - b.dateAdded

\* the comparator with the order parameter ignored
compareGamesAscending(a, b, sortBy, order) == comparison(a, b, sortBy)

\* return order === 'asc' ? comparison : -comparison
compareGames(a, b, sortBy, order) ==
  IF order = "asc" THEN comparison(a, b, sortBy)
  ELSE 0 - comparison(a, b, sortBy)

\* an insertion that puts an entry in front of the entries it ties with
RECURSIVE InsertBeforeTies(_, _, _, _)
InsertBeforeTies(sorted, x, sortBy, order) ==
  IF sorted = <<>> THEN <<x>>
  ELSE IF compareGames(x, sorted[Len(sorted)], sortBy, order) <= 0
    THEN Append(InsertBeforeTies(SubSeq(sorted, 1, Len(sorted) - 1),
                                 x, sortBy, order),
                sorted[Len(sorted)])
  ELSE Append(sorted, x)

\* the stable insertion of Array.prototype.sort: x goes behind every entry
\* of the sorted prefix that does not compare greater than it
RECURSIVE Insert(_, _, _, _)
Insert(sorted, x, sortBy, order) ==
  IF sorted = <<>> THEN <<x>>
  ELSE IF compareGames(x, sorted[Len(sorted)], sortBy, order) < 0
    THEN Append(Insert(SubSeq(sorted, 1, Len(sorted) - 1), x, sortBy, order),
                sorted[Len(sorted)])
  ELSE Append(sorted, x)

\* games.sort((a, b) => ...)
RECURSIVE sort(_, _, _)
sort(list, sortBy, order) ==
  IF list = <<>> THEN <<>>
  ELSE Insert(sort(SubSeq(list, 1, Len(list) - 1), sortBy, order),
              list[Len(list)], sortBy, order)

\* a filter that keeps the entries of every other status
filterOthers(list, status) ==
  IF status # "undefined" /\ status # ""
  THEN SelectSeq(list, LAMBDA game : game.status # status)
  ELSE list

\* if (status) games = games.filter(game => game.status === status)
filter(list, status) ==
  IF status # "undefined" /\ status # ""
  THEN SelectSeq(list, LAMBDA game : game.status = status)
  ELSE list

(***************************************************************************)
(* Requests.  A request body is a record whose fields are the keys that    *)
(* are present; the add body always carries its three keys, "undefined"    *)
(* standing for a missing one.                                             *)
(***************************************************************************)
\* the catalogue name of a game
NameOf(v) == IF v.t # "undefined" /\ CastGameId(v) = 1 THEN "b" ELSE "a"

AddBody(v, s) == [gameId |-> v, name |-> NameOf(v), status |-> s]

InvalidAddBodies ==
  {AddBody(Undefined, "playing"), AddBody(Str(<<"x">>), "playing"),
   AddBody(Num(2), "undefined"), AddBody(Num(2), "bogus"),
   [gameId |-> Num(1), name |-> "undefined", status |-> "playing"]}

InvalidUpdateBodies ==
  {[status |-> "bogus"], [userRating |-> 5], [userRating |-> 105],
   [notes |-> 501], [dateCompleted |-> 1],
   [status |-> "completed", userRating |-> 0]}

GameIdInputs == {Num(1), Num(2), Str(<<"1">>)}

AddBodies ==
  {AddBody(v, s) : v \in GameIdInputs, s \in {"playing", "completed"}}
  \cup InvalidAddBodies

UpdateBodies ==
  {<<>>}
  \cup [status : {"playing", "completed"}]
  \cup [userRating : {Null, 10, 15}]
  \cup [notes : {0, 500}]
  \cup [status : {"completed"}, userRating : {10, 15}]
  \cup [userRating : {10}, notes : {500}]
  \cup [status : {"playing"}, userRating : {Null}, notes : {0}]
  \cup InvalidUpdateBodies

Params == {<<"1">>, <<"2", "x">>, <<"1", "2">>, <<"x">>}

\* the query string of GET /library; "undefined" is a missing parameter
Query(status, sortBy, order) ==
  [status |-> status, sortBy |-> sortBy, order |-> order]

Queries ==
  {Query(st, "undefined", "undefined") :
     st \in {"", "playing", "completed", "dropped"}}
  \cup {Query("undefined", sb, o) :
          sb \in {"undefined", "name", "rating", "dateAdded",
                  "dateCompleted", "bogus"},
          o \in {"undefined", "asc"}}
  \cup {Query("playing", "name", "asc"), Query("undefined", "rating", "up")}

Response(code, msg) == [status |-> code, message |-> msg]
NoResponse == Response(0, "")

Request(op, param, body) == [op |-> op, param |-> param, body |-> body]
NoRequest == Request("none", <<>>, <<>>)

Requests ==
  {Request("add", <<>>, body) : body \in AddBodies}
  \cup {Request("update", param, body) : param \in Params, body \in UpdateBodies}
  \cup {Request("remove", param, <<>>) : param \in Params}
  \cup {Request("get", param, <<>>) : param \in Params}
  \cup {Request("list", <<>>, query) : query \in Queries}
  \cup {Request("stats", <<>>, <<>>)}

Handled(op, found, was, st) ==
  [op |-> op, found |-> found, wasCompleted |-> was, bodyStatus |-> st]

(***************************************************************************)
(* Initial state: a new user document, no request in flight                *)
(***************************************************************************)
(***************************************************************************)
(* Handlers in flight.  A mutating handler awaits User.findById and, after *)
(* its synchronous work on the loaded document, user.save(); a worker is   *)
(* one handler between these awaits.  user is the document it loaded and   *)
(* peers the workers whose current request overlapped with its own.        *)
(***************************************************************************)
Workers == 1..MaxWorkers

NoUser ==
  [gameLibrary |-> <<>>,
   stats |-> [totalGames |-> 0, completedGames |-> 0, averageRating |-> 0],
   version |-> 0]

Worker(pc, r, user, response, peers) ==
  [pc |-> pc, r |-> r, user |-> user, res |-> response, peers |-> peers]

IdleWorker == Worker("idle", NoRequest, NoUser, NoResponse, {})

ConcRequests ==
  {Request("add", <<>>, AddBody(Num(1), "playing")),
   Request("add", <<>>, AddBody(Num(2), "completed")),
   Request("add", <<>>, AddBody(Num(2), "bogus")),
   Request("update", <<"1">>, [status |-> "completed"]),
   Request("update", <<"1">>, [userRating |-> 10]),
   Request("remove", <<"1">>, <<>>)}

\* the last search action of the client: none yet, a search that was
\* issued, or a clearing of the list; failed records an error answer
LastSearch(kind, query, failed) ==
  [kind |-> kind, query |-> query, failed |-> failed]

NoSearch == LastSearch("none", <<>>, FALSE)

\* no worker has a request
NoWorkers ==
  /\ version = 0
  /\ workers = [w \in Workers |-> IdleWorker]

\* the search view as first rendered
FirstRender ==
  /\ searchTerm = <<>>
  /\ games = <<>>
  /\ loading = FALSE
  /\ error = ""
  /\ selectedGame = Null
  /\ gameDetails = Null
  /\ detailsLoading = FALSE
  /\ searchTimeout = Null
  /\ timers = {}
  /\ fetches = {}
  /\ detailFetches = {}
  /\ issued = 0
  /\ latest = NoSearch

\* bcrypt.hash(password, salt): the hash is not the text it was made from
hash(text) == [bcrypt |-> text]

\* the password the account was registered with
Registered == <<"s", "e", "c", "r", "e", "t">>

Init ==
  /\ NoWorkers
  /\ FirstRender
  /\ password = hash(Registered)
  /\ gameLibrary = <<>>
  /\ stats = [totalGames |-> 0, completedGames |-> 0, averageRating |-> 0]
  /\ now = 1
  /\ req = NoRequest
  /\ res = NoResponse
  /\ handled = Handled("none", FALSE, FALSE, "undefined")
  /\ listing = <<>>

\* a client sends a request; the library is kept within MaxLib entries
Send(r) ==
  /\ req = NoRequest
  /\ r.op = "add" => Len(gameLibrary) < MaxLib
  /\ req' = r
  /\ res' = NoResponse
  /\ handled' = Handled("none", FALSE, FALSE, "undefined")
  /\ listing' = <<>>
  /\ UNCHANGED <<gameLibrary, stats, now,
                 concVars, clientVars, password>>

(***************************************************************************)
(* POST /library                                                           *)
(***************************************************************************)
AddGame ==
  /\ req.op = "add"
  /\ req' = NoRequest
  /\ UNCHANGED <<now, listing,
                 concVars, clientVars, password>>
  /\ LET gameData == req.body
     IN IF addGameSchema(gameData) # ""
        THEN /\ res' = Response(400, addGameSchema(gameData))
             /\ handled' = Handled("add", FALSE, FALSE, "undefined")
             /\ UNCHANGED <<gameLibrary, stats>>
        ELSE IF hasGame(gameLibrary, gameData.gameId)
        THEN /\ res' = Response(400, "Game already in library")
             /\ handled' = Handled("add", TRUE, FALSE, gameData.status)
             /\ UNCHANGED <<gameLibrary, stats>>
        ELSE /\ gameLibrary' = push(gameLibrary, NewEntry(gameData, now))
             /\ stats' = updateStats(gameLibrary')
             /\ res' = Response(201, "Game added to library")
             /\ handled' = Handled("add", FALSE, FALSE, gameData.status)

(***************************************************************************)
(* PUT /library/:gameId                                                    *)
(***************************************************************************)
UpdateGame ==
  /\ req.op = "update"
  /\ req' = NoRequest
  /\ UNCHANGED <<now, listing,
                 concVars, clientVars, password>>
  /\ LET gameId == parseInt(req.param)
         updateData == req.body
         game == getGame(gameLibrary, gameId)
     IN IF updateGameSchema(updateData) # ""
        THEN /\ res' = Response(400, updateGameSchema(updateData))
             /\ handled' = Handled("update", game # 0, FALSE, "undefined")
             /\ UNCHANGED <<gameLibrary, stats>>
        ELSE IF game = 0
        THEN /\ res' = Response(404, "Game not found in library")
             /\ handled' = Handled("update", FALSE, FALSE, "undefined")
             /\ UNCHANGED <<gameLibrary, stats>>
        ELSE /\ gameLibrary' =
                  [gameLibrary EXCEPT
                     ![game] = ApplyUpdate(gameLibrary[game], updateData, now)]
             /\ stats' = updateStats(gameLibrary')
             /\ res' = Response(200, "Game updated successfully")
             /\ handled' = Handled("update", TRUE,
                                   gameLibrary[game].status = "completed",
                                   BodyStatus(updateData))

(***************************************************************************)
(* DELETE /library/:gameId                                                 *)
(***************************************************************************)
RemoveGame ==
  /\ req.op = "remove"
  /\ req' = NoRequest
  /\ UNCHANGED <<now, listing,
                 concVars, clientVars, password>>
  /\ LET gameId == parseInt(req.param)
         gameIndex == findIndex(gameLibrary, gameId)
     IN IF gameIndex = 0
        THEN /\ res' = Response(404, "Game not found in library")
             /\ handled' = Handled("remove", FALSE, FALSE, "undefined")
             /\ UNCHANGED <<gameLibrary, stats>>
        ELSE /\ gameLibrary' = RemoveAt(gameLibrary, gameIndex)
             /\ stats' = updateStats(gameLibrary')
             /\ res' = Response(200, "Game removed from library")
             /\ handled' = Handled("remove", TRUE, FALSE, "undefined")

(***************************************************************************)
(* GET /library/:gameId                                                    *)
(***************************************************************************)
GetGame ==
  /\ req.op = "get"
  /\ req' = NoRequest
  /\ UNCHANGED <<gameLibrary, stats, now, listing,
                 concVars, clientVars, password>>
  /\ LET gameId == parseInt(req.param)
         game == getGame(gameLibrary, gameId)
     IN IF game = 0
        THEN /\ res' = Response(404, "Game not found in library")
             /\ handled' = Handled("get", FALSE, FALSE, "undefined")
        ELSE /\ res' = Response(200, "")
             /\ handled' = Handled("get", TRUE, FALSE, "undefined")

(***************************************************************************)
(* GET /library: req.user is the document the auth middleware loaded for   *)
(* this request; the array is sorted in memory and never saved             *)
(***************************************************************************)
ListGames ==
  /\ req.op = "list"
  /\ req' = NoRequest
  /\ UNCHANGED <<gameLibrary, stats, now,
                 concVars, clientVars, password>>
  /\ LET status == req.body.status
         sortBy == Default(req.body.sortBy, "dateAdded")
         order == Default(req.body.order, "desc")
         list == sort(filter(gameLibrary, status), sortBy, order)
     IN /\ listing' = list
        /\ res' = Response(200, "")
        /\ handled' = Handled("list", FALSE, FALSE, "undefined")

\* .map(game => ({ name, status, dateAdded }))
activity(game) ==
  [name |-> game.name, status |-> game.status, dateAdded |-> game.dateAdded]

(***************************************************************************)
(* GET /stats: counts the loaded array and sorts it in memory by           *)
(* dateAdded, newest first, for the recent activity; nothing is saved      *)
(***************************************************************************)
GetStats ==
  /\ req.op = "stats"
  /\ req' = NoRequest
  /\ UNCHANGED <<gameLibrary, stats, now,
                 concVars, clientVars, password>>
  /\ LET list == sort(gameLibrary, "dateAdded", "desc")
         recentActivity == SubSeq(list, 1, IF Len(list) < RecentCount
                                            THEN Len(list) ELSE RecentCount)
     IN /\ listing' = [i \in 1..Len(recentActivity) |->
                          activity(recentActivity[i])]
        /\ res' = Response(200, "")
        /\ handled' = Handled("stats", FALSE, FALSE, "undefined")

\* time passes between requests; a handler reads the clock when it runs
Tick ==
  /\ req = NoRequest
  /\ now < MaxTime
  /\ now' = now + 1
  /\ UNCHANGED <<gameLibrary, stats, req, res, handled, listing,
                 concVars, clientVars, password>>

Next ==
  \/ \E r \in Requests : Send(r)
  \/ AddGame
  \/ UpdateGame
  \/ RemoveGame
  \/ GetGame
  \/ ListGames
  \/ GetStats
  \/ Tick

Spec == Init /\ [][Next]_allVars

(***************************************************************************)
(* Properties.  In a state with a request in flight the only step is its   *)
(* handler, so an action formula guarded by the request relates the state  *)
(* before the handler to the state after it.                               *)
(***************************************************************************)
InLibrary(id) == \E i \in 1..Len(gameLibrary) : gameLibrary[i].gameId = id

FirstIndexOf(id) ==
  CHOOSE i \in 1..Len(gameLibrary) :
    /\ gameLibrary[i].gameId = id
    /\ \A j \in 1..(i - 1) : gameLibrary[j].gameId # id

UniqueIds == \A i, j \in 1..Len(gameLibrary) :
               i # j => gameLibrary[i].gameId # gameLibrary[j].gameId

LibraryUnchanged == UNCHANGED <<gameLibrary, stats>>

NotFound == Response(404, "Game not found in library")
Updated == Response(200, "Game updated successfully")

\* the entry an update or remove request names
Target == FirstIndexOf(parseInt(req.param))

C2_GameIdAtMostOnce == UniqueIds

\* C3: after a successful update whose body has status 'completed' on an
\* entry whose stored status was not 'completed', the entry's dateCompleted
\* is non-null.
C3_CompletedSetsDate ==
  [][(/\ req.op = "update"
      /\ res' = Updated
      /\ "status" \in DOMAIN req.body /\ req.body.status = "completed"
      /\ gameLibrary[Target].status # "completed")
     => gameLibrary'[Target].dateCompleted # Null]_vars

\* C4: after a successful update whose body has a status other than
\* 'completed' on an entry whose stored status was 'completed', the entry's
\* dateCompleted is null.
C4_LeavingCompletedClearsDate ==
  [][(/\ req.op = "update"
      /\ res' = Updated
      /\ "status" \in DOMAIN req.body /\ req.body.status # "completed"
      /\ gameLibrary[Target].status = "completed")
     => gameLibrary'[Target].dateCompleted = Null]_vars

C4_Witness ==
  /\ res = Updated
  /\ handled.op = "update"
  /\ handled.wasCompleted
  /\ handled.bodyStatus \in Statuses \ {"completed"}

\* C5: in every reachable state every entry has dateCompleted non-null
\* exactly when its status is 'completed'.
C5_DateCompletedIffCompleted ==
  \A i \in 1..Len(gameLibrary) :
    (gameLibrary[i].dateCompleted # Null) <=> (gameLibrary[i].status = "completed")

CompletedIdx == {i \in 1..Len(gameLibrary) : gameLibrary[i].status = "completed"}
RatedIdx == {i \in CompletedIdx : gameLibrary[i].userRating # Null}

RECURSIVE RatingTotal(_)
RatingTotal(S) ==
  IF S = {} THEN 0
  ELSE LET i == CHOOSE x \in S : TRUE
       IN gameLibrary[i].userRating + RatingTotal(S \ {i})

\* C6: the stored stats are the stats of the stored library: totalGames is
\* the number of entries, completedGames the number of completed entries,
\* averageRating the mean rating of the completed and rated entries rounded
\* to one decimal, a half rounding up, and 0 when there is no such entry.
\* In tenths: a is the rounding of t/n iff a - 1/2 <= t/n < a + 1/2.
C6_StatsMatchLibrary ==
  /\ stats.totalGames = Len(gameLibrary)
  /\ stats.completedGames = Cardinality(CompletedIdx)
  /\ IF RatedIdx = {} THEN stats.averageRating = 0
     ELSE LET n == Cardinality(RatedIdx)
              t == RatingTotal(RatedIdx)
              a == stats.averageRating
          IN 2 * n * a - n <= 2 * t /\ 2 * t < 2 * n * a + n

C6_Witness ==
  /\ stats.averageRating = 13
  /\ Cardinality(RatedIdx) = 2
  /\ RatingTotal(RatedIdx) = 25

\* C7: for a gameId that is not in the library, remove, update with a valid
\* body and get-by-id each answer 404 'Game not found in library' and leave
\* library and stats unchanged.
C7_MissingIdNotFound ==
  [][(/\ \/ req.op \in {"remove", "get"}
         \/ req.op = "update" /\ updateGameSchema(req.body) = ""
      /\ ~InLibrary(parseInt(req.param)))
     => (res' = NotFound /\ LibraryUnchanged)]_vars

C7_Witness ==
  /\ res = NotFound
  /\ handled.op = "remove"
  /\ Len(gameLibrary) > 0

AddInvalid(body) ==
  \/ body.status = "undefined"
  \/ body.status \notin {"playing", "completed", "dropped", "plan-to-play"}
  \/ body.gameId.t = "undefined"
  \/ body.name = "undefined"

UpdateInvalid(body) ==
  \/ "status" \in DOMAIN body
       /\ body.status \notin {"playing", "completed", "dropped", "plan-to-play"}
  \/ "userRating" \in DOMAIN body /\ body.userRating # Null
       /\ (body.userRating < 10 \/ body.userRating > 100)
  \/ "notes" \in DOMAIN body /\ body.notes > 500

\* C8: an add whose status is missing or not allowed, or whose gameId or name
\* is missing, and an update whose status is not allowed, whose userRating is
\* a number outside 1..10 or whose notes exceed 500 characters, is answered
\* 400 and leaves library and stats unchanged, whether or not the gameId of
\* the update is in the library.
C8_ValidationFailure400 ==
  [][(\/ req.op = "add" /\ AddInvalid(req.body)
      \/ req.op = "update" /\ UpdateInvalid(req.body))
     => (res'.status = 400 /\ LibraryUnchanged)]_vars

C8_Witness ==
  /\ res.status = 400
  /\ handled.op = "update"
  /\ ~handled.found
  /\ Len(gameLibrary) > 0

\* C9: after a successful update of entry g, each of status, userRating and
\* notes that is absent from the body keeps its value on g, gameId, name and
\* dateAdded of g are unchanged, every other entry is unchanged, and the
\* number and order of the entries are unchanged.
C9_UpdateMergesProvidedFields ==
  [][(req.op = "update" /\ res' = Updated)
     => /\ Len(gameLibrary') = Len(gameLibrary)
        /\ \A k \in {"status", "userRating", "notes"} \ DOMAIN req.body :
             gameLibrary'[Target][k] = gameLibrary[Target][k]
        /\ \A k \in {"gameId", "name", "dateAdded"} :
             gameLibrary'[Target][k] = gameLibrary[Target][k]
        /\ \A j \in 1..Len(gameLibrary) :
             j # Target => gameLibrary'[j] = gameLibrary[j]]_vars

C9_Witness ==
  /\ res = Updated
  /\ handled.op = "update"
  /\ handled.bodyStatus = "undefined"
  /\ Len(gameLibrary) = 2
  /\ \E i \in 1..Len(gameLibrary) :
       /\ gameLibrary[i].status = "completed"
       /\ gameLibrary[i].userRating # Null
       /\ gameLibrary[i].notes # 0

\* C10: a successful remove of gameId g deletes one entry with that id and
\* nothing else: the other entries are still present, unmodified and in the
\* same order, and when the ids were unique no entry with id g remains.
C10_RemoveDeletesById ==
  [][(req.op = "remove" /\ res'.status = 200)
     => /\ \E i \in 1..Len(gameLibrary) :
             /\ gameLibrary[i].gameId = parseInt(req.param)
             /\ Len(gameLibrary') = Len(gameLibrary) - 1
             /\ \A j \in 1..(i - 1) : gameLibrary'[j] = gameLibrary[j]
             /\ \A j \in (i + 1)..Len(gameLibrary) :
                  gameLibrary'[j - 1] = gameLibrary[j]
        /\ UniqueIds =>
             \A j \in 1..Len(gameLibrary') :
               gameLibrary'[j].gameId # parseInt(req.param)]_vars

C10_Witness ==
  /\ res = Response(200, "Game removed from library")
  /\ handled.op = "remove"
  /\ Len(gameLibrary) > 0

(***************************************************************************)
(* Listing and ordering                                                    *)
(***************************************************************************)
\* the stored entries are in non-decreasing order of their addition date
AddedInOrder ==
  \A i, j \in 1..Len(gameLibrary) :
    i < j => gameLibrary[i].dateAdded <= gameLibrary[j].dateAdded

\* the step puts one new entry behind the stored ones
AppendedOne ==
  /\ Len(gameLibrary') = Len(gameLibrary) + 1
  /\ SubSeq(gameLibrary', 1, Len(gameLibrary)) = gameLibrary

\* the step keeps every entry, with its id and addition date, in its slot
SameSlots ==
  /\ Len(gameLibrary') = Len(gameLibrary)
  /\ \A i \in 1..Len(gameLibrary) :
       /\ gameLibrary'[i].gameId = gameLibrary[i].gameId
       /\ gameLibrary'[i].dateAdded = gameLibrary[i].dateAdded

\* the step takes one entry out and keeps the others in their order
RemovedOne ==
  \E i \in 1..Len(gameLibrary) :
    gameLibrary' = SubSeq(gameLibrary, 1, i - 1)
                   \o SubSeq(gameLibrary, i + 1, Len(gameLibrary))

\* C11: the stored entries are in the order in which they were added: a
\* successful add puts the new entry at the end, an update keeps every
\* entry in its slot, a remove takes one entry out of the sequence, and
\* the reads (GET /library with any sort, GET /library/:gameId, GET /stats)
\* leave the stored library and stats as they are.
C11_StoredOrderIsAdditionOrder ==
  [][/\ req.op \in {"list", "stats", "get"} => LibraryUnchanged
     /\ (req.op = "add" /\ res'.status = 201)
          => (AppendedOne /\ gameLibrary'[Len(gameLibrary')].dateAdded = now)
     /\ (req.op = "add" /\ res'.status # 201) => LibraryUnchanged
     /\ req.op = "update" => SameSlots
     /\ req.op = "remove" => (RemovedOne \/ LibraryUnchanged)
     /\ AddedInOrder']_vars

\* GET /stats has answered with the newer of two entries first while the
\* stored library still has the older one first
C11_Witness ==
  /\ handled.op = "stats"
  /\ Len(gameLibrary) = 2
  /\ gameLibrary[1].dateAdded < gameLibrary[2].dateAdded
  /\ listing = <<activity(gameLibrary[2]), activity(gameLibrary[1])>>

\* how many times an entry occurs in a sequence of entries
CountIn(entries, e) == Cardinality({i \in 1..Len(entries) : entries[i] = e})

Entries(entries) == {entries[i] : i \in 1..Len(entries)}

\* the answer holds the stored entries of status st, each as often as it is
\* stored, and nothing else
ListedWithStatus(st) ==
  \A e \in Entries(gameLibrary) \cup Entries(listing') :
    CountIn(listing', e) = IF e.status = st THEN CountIn(gameLibrary, e) ELSE 0

\* the answer holds every stored entry, each as often as it is stored
ListedAll ==
  \A e \in Entries(gameLibrary) \cup Entries(listing') :
    CountIn(listing', e) = CountIn(gameLibrary, e)

\* C12 as stated: GET /library with a status parameter answers with exactly
\* the entries whose status equals the parameter, and without a status
\* parameter with every entry.
C12_StatusFilter ==
  [][req.op = "list"
     => IF req.body.status # "undefined"
        THEN ListedWithStatus(req.body.status)
        ELSE ListedAll]_vars

\* C12 amended: GET /library with a non-empty status parameter answers with
\* exactly the entries whose status equals the parameter; without a status
\* parameter, or with an empty one, it answers with every entry.
C12_NonEmptyStatusFilter ==
  [][req.op = "list"
     => IF req.body.status \notin {"undefined", ""}
        THEN ListedWithStatus(req.body.status)
        ELSE ListedAll]_vars

\* a filtered listing has answered with one of two stored entries
C12_Witness ==
  /\ handled.op = "list"
  /\ Len(gameLibrary) = 2
  /\ Len(listing) = 1
  /\ listing[1] \in Entries(gameLibrary)

\* the sort key of an entry: an entry without rating ranks as 0, one without
\* completion date as the earliest date, an unknown key is dateAdded
Key(game, sortBy) ==
  CASE sortBy = "name" -> NameRank(game.name)
    [] sortBy = "rating" -> IF game.userRating = Null THEN 0 ELSE game.userRating
    [] sortBy = "dateCompleted" ->
         IF game.dateCompleted = Null THEN 0 ELSE game.dateCompleted
    [] OTHER -> game.dateAdded

\* C13: the entries GET /library answers with are ordered by the requested
\* key (name, rating, dateAdded, dateCompleted; dateAdded for no or an
\* unknown sortBy): non-decreasing for order 'asc', non-increasing for any
\* other order value and for no order parameter.
C13_SortedByKey ==
  [][req.op = "list"
     => \A i, j \in 1..Len(listing') :
          i < j => IF req.body.order = "asc"
                   THEN Key(listing'[i], req.body.sortBy)
                          <= Key(listing'[j], req.body.sortBy)
                   ELSE Key(listing'[i], req.body.sortBy)
                          >= Key(listing'[j], req.body.sortBy)]_vars

\* a listing has answered with two entries, the later added one first,
\* against the stored order
C13_Witness ==
  /\ handled.op = "list"
  /\ Len(listing) = 2
  /\ listing # gameLibrary
  /\ listing[1].dateAdded > listing[2].dateAdded

\* C14: entries that tie on the sort key come out of GET /library in the
\* relative order they have in the stored library, for ascending and for
\* descending order: the answer is a selection p of stored positions that
\* is increasing wherever the keys are equal.
C14_TiesKeepStoredOrder ==
  [][req.op = "list"
     => \E p \in [1..Len(listing') -> 1..Len(gameLibrary)] :
          /\ \A i \in 1..Len(listing') : listing'[i] = gameLibrary[p[i]]
          /\ \A i, j \in 1..Len(listing') :
               (i < j /\ Key(listing'[i], req.body.sortBy)
                           = Key(listing'[j], req.body.sortBy))
                 => p[i] < p[j]
          /\ \A i, j \in 1..Len(listing') : i # j => p[i] # p[j]]_vars

\* a listing has answered with two different entries that tie on every sort
\* key, in their stored order
C14_Witness ==
  /\ handled.op = "list"
  /\ Len(listing) = 2
  /\ listing = gameLibrary
  /\ listing[1] # listing[2]
  /\ \A k \in {"name", "rating", "dateAdded", "dateCompleted"} :
       Key(listing[1], k) = Key(listing[2], k)

\* every stored entry has one of the four statuses and a rating that is
\* null or within 1..10
EntryDomain ==
  \A i \in 1..Len(gameLibrary) :
    /\ gameLibrary[i].status \in Statuses
    /\ \/ gameLibrary[i].userRating = Null
       \/ /\ gameLibrary[i].userRating >= MinRating * RatingScale
          /\ gameLibrary[i].userRating <= MaxRating * RatingScale

\* C15: in every reachable state each stored entry has a status among
\* playing, completed, dropped, plan-to-play and a userRating that is null
\* or between 1 and 10; an entry created by an add starts with a null
\* rating and empty notes.
C15_EntryDomainAndDefaults ==
  /\ []EntryDomain
  /\ [][(req.op = "add" /\ res'.status = 201)
        => /\ gameLibrary'[Len(gameLibrary')].userRating = Null
           /\ gameLibrary'[Len(gameLibrary')].notes = 0]_vars

\* an add has been accepted and a rated entry is stored
C15_Witness ==
  /\ handled.op = "add"
  /\ res.status = 201
  /\ \E i \in 1..Len(gameLibrary) : gameLibrary[i].userRating # Null

(***************************************************************************)
(* Interleaved handlers.  Between the load and the save of one handler     *)
(* other handlers may load and save.  save() sends the changes made to the *)
(* loaded document: a push as $push of the new entry, an assignment to a   *)
(* field of an entry as $set of that field at its position, which is       *)
(* refused when the version key has moved, a splice as $set of the whole   *)
(* array, refused likewise, and each stats field whose value changed.      *)
(* push and splice increment the version key.                              *)
(***************************************************************************)
InFlight(w) == workers[w].pc \in {"sent", "loaded"}

Pending(ops) ==
  Cardinality({w \in Workers : InFlight(w) /\ workers[w].r.op \in ops})

ServerError == Response(500, "Server error")

\* the stats fields save() writes: those updateStats changed in memory
StatsDelta(stored, loaded, computed) ==
  [k \in DOMAIN stored |->
     IF computed[k] # loaded[k] THEN computed[k] ELSE stored[k]]

\* the fields of an entry save() writes: those the handler changed
EntryDelta(stored, loaded, updated) ==
  [k \in DOMAIN stored |->
     IF updated[k] # loaded[k] THEN updated[k] ELSE stored[k]]

Answer(w, response) ==
  workers' = [workers EXCEPT
                ![w] = Worker("done", workers[w].r, NoUser, response,
                              workers[w].peers)]

\* a request reaches its handler, which validates the body before its
\* first await
ConcSend(w, r) ==
  /\ ~InFlight(w)
  /\ r.op = "add" => Len(gameLibrary) + Pending({"add"}) < MaxLib
  /\ r.op \in {"add", "remove"}
       => version + Pending({"add", "remove"}) < MaxVersion
  /\ LET invalid == IF r.op = "add" THEN addGameSchema(r.body)
                    ELSE IF r.op = "update" THEN updateGameSchema(r.body)
                    ELSE ""
         overlapping == {v \in Workers \ {w} : InFlight(v)}
         mine == IF invalid # ""
                 THEN Worker("done", r, NoUser, Response(400, invalid), {})
                 ELSE Worker("sent", r, NoUser, NoResponse, overlapping)
     IN workers' =
          [v \in Workers |->
             IF v = w THEN mine
             ELSE IF InFlight(v) /\ invalid = ""
               THEN [workers[v] EXCEPT !.peers = @ \cup {w}]
             ELSE [workers[v] EXCEPT !.peers = @ \ {w}]]
  /\ UNCHANGED <<vars, version, clientVars, password>>

\* const user = await User.findById(req.user._id)
ConcLoad(w) ==
  /\ workers[w].pc = "sent"
  /\ workers' = [workers EXCEPT
                   ![w].pc = "loaded",
                   ![w].user = [gameLibrary |-> gameLibrary,
                                stats |-> stats,
                                version |-> version]]
  /\ UNCHANGED <<vars, version, clientVars, password>>

\* POST /library from the duplicate check to the answer
ConcAdd(w) ==
  /\ workers[w].pc = "loaded"
  /\ workers[w].r.op = "add"
  /\ LET user == workers[w].user
         gameData == workers[w].r.body
         entry == NewEntry(gameData, now)
     IN IF hasGame(user.gameLibrary, gameData.gameId)
        THEN /\ Answer(w, Response(400, "Game already in library"))
             /\ UNCHANGED <<gameLibrary, stats, version>>
        ELSE /\ gameLibrary' = push(gameLibrary, entry)
             /\ stats' = StatsDelta(stats, user.stats,
                                    updateStats(push(user.gameLibrary, entry)))
             /\ version' = version + 1
             /\ Answer(w, Response(201, "Game added to library"))
  /\ UNCHANGED <<now, req, res, handled, listing, clientVars, password>>

\* PUT /library/:gameId from the lookup to the answer
ConcUpdate(w) ==
  /\ workers[w].pc = "loaded"
  /\ workers[w].r.op = "update"
  /\ LET user == workers[w].user
         game == getGame(user.gameLibrary, parseInt(workers[w].r.param))
         updated == ApplyUpdate(user.gameLibrary[game], workers[w].r.body, now)
         computed == updateStats([user.gameLibrary EXCEPT ![game] = updated])
     IN IF game = 0
        THEN /\ Answer(w, Response(404, "Game not found in library"))
             /\ UNCHANGED <<gameLibrary, stats>>
        ELSE IF updated = user.gameLibrary[game]
        THEN /\ stats' = StatsDelta(stats, user.stats, computed)
             /\ Answer(w, Response(200, "Game updated successfully"))
             /\ UNCHANGED gameLibrary
        ELSE IF version # user.version
        THEN /\ Answer(w, ServerError)
             /\ UNCHANGED <<gameLibrary, stats>>
        ELSE /\ gameLibrary' =
                  [gameLibrary EXCEPT
                     ![game] = EntryDelta(@, user.gameLibrary[game], updated)]
             /\ stats' = StatsDelta(stats, user.stats, computed)
             /\ Answer(w, Response(200, "Game updated successfully"))
  /\ UNCHANGED <<now, req, res, handled, listing, version, clientVars, password>>

\* DELETE /library/:gameId from the lookup to the answer
ConcRemove(w) ==
  /\ workers[w].pc = "loaded"
  /\ workers[w].r.op = "remove"
  /\ LET user == workers[w].user
         gameIndex == findIndex(user.gameLibrary, parseInt(workers[w].r.param))
         spliced == RemoveAt(user.gameLibrary, gameIndex)
     IN IF gameIndex = 0
        THEN /\ Answer(w, Response(404, "Game not found in library"))
             /\ UNCHANGED <<gameLibrary, stats, version>>
        ELSE IF version # user.version
        THEN /\ Answer(w, ServerError)
             /\ UNCHANGED <<gameLibrary, stats, version>>
        ELSE /\ gameLibrary' = spliced
             /\ stats' = StatsDelta(stats, user.stats, updateStats(spliced))
             /\ version' = version + 1
             /\ Answer(w, Response(200, "Game removed from library"))
  /\ UNCHANGED <<now, req, res, handled, listing, clientVars, password>>

NextConc ==
  \/ \E w \in Workers, r \in ConcRequests : ConcSend(w, r)
  \/ \E w \in Workers : ConcLoad(w)
  \/ \E w \in Workers : ConcAdd(w)
  \/ \E w \in Workers : ConcUpdate(w)
  \/ \E w \in Workers : ConcRemove(w)

SpecConc == Init /\ [][NextConc]_allVars

\* how many stored entries have the id
StoredCount(id) ==
  Cardinality({i \in 1..Len(gameLibrary) : gameLibrary[i].gameId = id})

\* two answered adds of the same gameId whose handling overlapped
OverlappingAdds(w, v) ==
  /\ w # v
  /\ workers[w].pc = "done" /\ workers[v].pc = "done"
  /\ workers[w].r.op = "add" /\ workers[v].r.op = "add"
  /\ workers[w].res.status # 400 \/ workers[w].res.message = "Game already in library"
  /\ workers[v].res.status # 400 \/ workers[v].res.message = "Game already in library"
  /\ workers[w].r.body.gameId = workers[v].r.body.gameId
  /\ v \in workers[w].peers

\* C17: of two add requests for the same gameId that are handled
\* concurrently at most one is answered 201, and the library then holds
\* that gameId exactly once.
C17_ConcurrentAddsAcceptedOnce ==
  \A w, v \in Workers :
    OverlappingAdds(w, v)
      => /\ ~(workers[w].res.status = 201 /\ workers[v].res.status = 201)
         /\ StoredCount(workers[w].r.body.gameId.n) = 1

\* C18: whenever no mutation request is in flight, stats.totalGames is the
\* number of stored entries and stats.completedGames the number of stored
\* entries with status completed.
C18_StatsConsistentWhenQuiet ==
  (\A w \in Workers : ~InFlight(w))
    => /\ stats.totalGames = Len(gameLibrary)
       /\ stats.completedGames =
            Cardinality({i \in 1..Len(gameLibrary) :
                           gameLibrary[i].status = "completed"})

(***************************************************************************)
(* The search view of the client (src/App.js).  A game of the catalogue is *)
(* represented by its id and the details of a game by the id they belong   *)
(* to.  Timers and fetches carry the number under which they were issued.  *)
(* A timer fires, and a response arrives, at any moment after it was       *)
(* issued.  latest is the record of the last search action, kept for the   *)
(* properties.                                                             *)
(***************************************************************************)
RECURSIVE trimStart(_)
trimStart(s) ==
  IF s # <<>> /\ Head(s) = " " THEN trimStart(Tail(s)) ELSE s

RECURSIVE trimEnd(_)
trimEnd(s) ==
  IF s # <<>> /\ s[Len(s)] = " " THEN trimEnd(SubSeq(s, 1, Len(s) - 1)) ELSE s

\* String.prototype.trim
trim(s) == trimEnd(trimStart(s))

\* the values typed into the input
Values ==
  {<<>>, <<"a", "b">>, <<"a", "b", "c">>, <<"a", "b", "c", "d">>,
   <<" ", " ", " ">>}

\* data.results of the catalogue for a query
Results(query) ==
  IF Len(query) = 2 THEN <<1>>
  ELSE IF Len(query) = 3 THEN <<1, 2>>
  ELSE <<2>>

Timer(id, value) == [id |-> id, value |-> value]
Fetch(id, query) == [id |-> id, query |-> query]
DetailFetch(id, gameId) == [id |-> id, gameId |-> gameId]

SearchFailed == "Error searching games. Please try again."

\* searchGames(query) up to its await
searchGames(query) ==
  IF trim(query) = <<>>
  THEN /\ games' = <<>>
       /\ latest' = LastSearch("cleared", <<>>, FALSE)
       /\ UNCHANGED <<loading, error, fetches, issued>>
  ELSE /\ issued < MaxIssued
       /\ loading' = TRUE
       /\ error' = ""
       /\ issued' = issued + 1
       /\ fetches' = fetches \cup {Fetch(issued + 1, query)}
       /\ latest' = LastSearch("search", query, FALSE)
       /\ UNCHANGED games

\* the timers left by `if (searchTimeout) clearTimeout(searchTimeout)`
clearTimeout(pending, id) ==
  IF id # Null THEN {t \in pending : t.id # id} ELSE pending

\* the input changes to value
handleInputChange(value) ==
  /\ selectedGame = Null
  /\ value # searchTerm
  /\ searchTerm' = value
  /\ IF trim(value) = <<>>
     THEN /\ timers' = clearTimeout(timers, searchTimeout)
          /\ games' = <<>>
          /\ latest' = LastSearch("cleared", <<>>, FALSE)
          /\ UNCHANGED <<searchTimeout, issued>>
     ELSE IF Len(value) > MinSearchLength
     THEN /\ issued < MaxIssued
          /\ timers' = clearTimeout(timers, searchTimeout)
                       \cup {Timer(issued + 1, value)}
          /\ searchTimeout' = issued + 1
          /\ issued' = issued + 1
          /\ UNCHANGED <<games, latest>>
     ELSE /\ timers' = clearTimeout(timers, searchTimeout)
          /\ UNCHANGED <<games, latest, searchTimeout, issued>>
  /\ UNCHANGED <<loading, error, selectedGame, gameDetails, detailsLoading,
                 fetches, detailFetches, vars, concVars, password>>

\* Enter in the input: handleSearch
handleSearch ==
  /\ selectedGame = Null
  /\ searchGames(searchTerm)
  /\ UNCHANGED <<searchTerm, selectedGame, gameDetails, detailsLoading,
                 searchTimeout, timers, detailFetches, vars, concVars, password>>

\* a pending timer fires: () => searchGames(value)
TimerFires(t) ==
  /\ t \in timers
  /\ timers' = timers \ {t}
  /\ searchGames(t.value)
  /\ UNCHANGED <<searchTerm, selectedGame, gameDetails, detailsLoading,
                 searchTimeout, detailFetches, vars, concVars, password>>

\* the catalogue answers a search: searchGames after its await
SearchResponse(f) ==
  /\ f \in fetches
  /\ fetches' = fetches \ {f}
  /\ games' = Results(f.query)
  /\ loading' = FALSE
  /\ UNCHANGED <<searchTerm, error, selectedGame, gameDetails, detailsLoading,
                 searchTimeout, timers, detailFetches, issued, latest,
                 vars, concVars, password>>

\* a search fails: the catch and finally of searchGames
SearchFails(f) ==
  /\ f \in fetches
  /\ fetches' = fetches \ {f}
  /\ error' = SearchFailed
  /\ loading' = FALSE
  /\ latest' = [latest EXCEPT !.failed = TRUE]
  /\ UNCHANGED <<searchTerm, games, selectedGame, gameDetails, detailsLoading,
                 searchTimeout, timers, detailFetches, issued, vars, concVars, password>>

\* a card of the grid is clicked; the modal, once open, covers the grid
handleGameClick(game) ==
  /\ selectedGame = Null
  /\ \E i \in 1..Len(games) : games[i] = game
  /\ issued < MaxIssued
  /\ selectedGame' = game
  /\ detailsLoading' = TRUE
  /\ issued' = issued + 1
  /\ detailFetches' = detailFetches \cup {DetailFetch(issued + 1, game)}
  /\ UNCHANGED <<searchTerm, games, loading, error, gameDetails, searchTimeout,
                 timers, fetches, latest, vars, concVars, password>>

\* the catalogue answers a details request: fetchGameDetails after its await
DetailsResponse(f) ==
  /\ f \in detailFetches
  /\ detailFetches' = detailFetches \ {f}
  /\ gameDetails' = f.gameId
  /\ detailsLoading' = FALSE
  /\ UNCHANGED <<searchTerm, games, loading, error, selectedGame,
                 searchTimeout, timers, fetches, issued, latest,
                 vars, concVars, password>>

\* a details request fails: the catch and finally of fetchGameDetails
DetailsFails(f) ==
  /\ f \in detailFetches
  /\ detailFetches' = detailFetches \ {f}
  /\ gameDetails' = Null
  /\ detailsLoading' = FALSE
  /\ UNCHANGED <<searchTerm, games, loading, error, selectedGame,
                 searchTimeout, timers, fetches, issued, latest,
                 vars, concVars, password>>

closeModal ==
  /\ selectedGame # Null
  /\ selectedGame' = Null
  /\ gameDetails' = Null
  /\ UNCHANGED <<searchTerm, games, loading, error, detailsLoading,
                 searchTimeout, timers, fetches, detailFetches, issued, latest,
                 vars, concVars, password>>

NextClient ==
  \/ \E value \in Values : handleInputChange(value)
  \/ handleSearch
  \/ \E t \in timers : TimerFires(t)
  \/ \E f \in fetches : SearchResponse(f)
  \/ \E f \in fetches : SearchFails(f)
  \/ \E game \in {1, 2} : handleGameClick(game)
  \/ \E f \in detailFetches : DetailsResponse(f)
  \/ \E f \in detailFetches : DetailsFails(f)
  \/ closeModal

SpecClient == Init /\ [][NextClient]_allVars

(***************************************************************************)
(* The search view without the modal (the second GameSearch component of   *)
(* the repository).  Its searchGames and handleSearch are those of App.js; *)
(* its handleInputChange returns a function that would clear the timer,    *)
(* which the caller of an event handler drops, so no timer is cleared.     *)
(***************************************************************************)
GameSearchInputChange(value) ==
  /\ value # searchTerm
  /\ searchTerm' = value
  /\ IF Len(value) > MinSearchLength
     THEN /\ issued < MaxIssued
          /\ timers' = timers \cup {Timer(issued + 1, value)}
          /\ issued' = issued + 1
     ELSE UNCHANGED <<timers, issued>>
  /\ UNCHANGED <<games, loading, error, selectedGame, gameDetails,
                 detailsLoading, searchTimeout, fetches, detailFetches,
                 latest, vars, concVars, password>>

NextGameSearch ==
  \/ \E value \in Values : GameSearchInputChange(value)
  \/ handleSearch
  \/ \E t \in timers : TimerFires(t)
  \/ \E f \in fetches : SearchResponse(f)
  \/ \E f \in fetches : SearchFails(f)

SpecGameSearch == Init /\ [][NextGameSearch]_allVars

\* C16: typed input is debounced: an input change cancels the timer of the
\* previous change before it schedules its own, so at most one search timer
\* is pending, and the pending timer is for the current value of the input,
\* which is longer than 2 characters; a run of quick changes can then lead
\* to one typed search at most, for the last value.
C16_OneTimerForLastValue ==
  /\ Cardinality(timers) <= 1
  /\ \A t \in timers :
       /\ t.value = searchTerm
       /\ Len(t.value) > MinSearchLength

\* C19: responses never overwrite newer results: once no search is in
\* flight and none has failed, the games shown are the result of the search
\* issued last, and after the input was cleared the list stays empty until
\* another search is issued.
C19_NewestResultsShown ==
  /\ latest.kind = "cleared" => games = <<>>
  /\ (latest.kind = "search" /\ fetches = {} /\ ~latest.failed)
       => games = Results(latest.query)

\* C20: with a game selected, detailsLoading false and gameDetails not null,
\* gameDetails is the answer fetched for the selected game; detailsLoading
\* is true whenever a details request for the selected game is in flight.
C20_DetailsOfSelectedGame ==
  /\ (selectedGame # Null /\ ~detailsLoading /\ gameDetails # Null)
       => gameDetails = selectedGame
  /\ \A f \in detailFetches : f.gameId = selectedGame => detailsLoading

(***************************************************************************)
(* PUT /api/users/password (backend/routes/users.js).  The request body    *)
(* carries currentPassword and newPassword as JSON values.  The stored     *)
(* password is the hash the pre-save hook makes of the assigned text.      *)
(* Library requests run beside the password requests, so that a password   *)
(* change meets a library with entries.                                    *)
(***************************************************************************)
\* Joi.string().required(): present, a string, not empty
StringError(v, key) ==
  IF v.t = "undefined" THEN key \o " is required"
  ELSE IF v.t # "string" THEN key \o " must be a string"
  ELSE IF v.s = <<>> THEN key \o " is not allowed to be empty"
  ELSE ""

\* the first error message of updatePasswordSchema.validate, "" if none
updatePasswordSchema(body) ==
  IF StringError(body.currentPassword, "currentPassword") # ""
    THEN StringError(body.currentPassword, "currentPassword")
  ELSE IF StringError(body.newPassword, "newPassword") # ""
    THEN StringError(body.newPassword, "newPassword")
  ELSE IF Len(body.newPassword.s) < MinPassword
    THEN "newPassword length must be at least 6 characters long"
  ELSE ""

\* a comparison that accepts every candidate
comparePasswordAny(stored, candidatePassword) == TRUE

\* bcrypt.compare(candidatePassword, this.password)
comparePassword(stored, candidatePassword) == stored = hash(candidatePassword)

PasswordInputs ==
  {Undefined, Num(1), Str(<<>>), Str(<<"p", "a", "s", "s", "w">>),
   Str(Registered), Str(<<"h", "u", "n", "t", "e", "r", "2">>)}

PasswordBodies == [currentPassword : PasswordInputs, newPassword : PasswordInputs]

AccountRequests ==
  {Request("password", <<>>, body) : body \in PasswordBodies}
  \cup {Request("add", <<>>, AddBody(Num(id), "completed")) : id \in {1, 2}}
  \cup {Request("update", <<"1">>, [userRating |-> 15]),
        Request("remove", <<"1">>, <<>>)}

UpdatePassword ==
  /\ req.op = "password"
  /\ req' = NoRequest
  /\ UNCHANGED <<gameLibrary, stats, now, listing, concVars, clientVars>>
  /\ LET currentPassword == req.body.currentPassword
         newPassword == req.body.newPassword
     IN IF updatePasswordSchema(req.body) # ""
        THEN /\ res' = Response(400, updatePasswordSchema(req.body))
             /\ handled' = Handled("password", FALSE, FALSE, "undefined")
             /\ UNCHANGED password
        ELSE IF ~comparePassword(password, currentPassword.s)
        THEN /\ res' = Response(400, "Current password is incorrect")
             /\ handled' = Handled("password", FALSE, FALSE, "undefined")
             /\ UNCHANGED password
        ELSE /\ password' = hash(newPassword.s)
             /\ res' = Response(200, "Password updated successfully")
             /\ handled' = Handled("password", TRUE, FALSE, "undefined")

NextAccount ==
  \/ \E r \in AccountRequests : Send(r)
  \/ UpdatePassword
  \/ AddGame
  \/ UpdateGame
  \/ RemoveGame

SpecAccount == Init /\ [][NextAccount]_allVars

\* a field of the password body is missing, not a string or empty
FieldMissing(v) == v.t # "string" \/ v.s = <<>>

\* the body is refused: a field is missing or newPassword is too short
PasswordInvalid(body) ==
  \/ FieldMissing(body.currentPassword)
  \/ FieldMissing(body.newPassword)
  \/ Len(body.newPassword.s) < MinPassword

\* C21: a password request with a missing field or a newPassword shorter
\* than 6 characters is answered 400, one whose currentPassword does not
\* match the stored password is answered 400 'Current password is
\* incorrect', and both leave the stored password as it is; otherwise the
\* stored password becomes the hash of newPassword; no password request
\* changes the library or the stats.
C21_PasswordChangeGuarded ==
  [][req.op = "password"
     => /\ LibraryUnchanged
        /\ PasswordInvalid(req.body)
             => (res'.status = 400 /\ password' = password)
        /\ (~PasswordInvalid(req.body)
            /\ password # hash(req.body.currentPassword.s))
             => /\ res' = Response(400, "Current password is incorrect")
                /\ password' = password
        /\ (~PasswordInvalid(req.body)
            /\ password = hash(req.body.currentPassword.s))
             => /\ res'.status = 200
                /\ password' = hash(req.body.newPassword.s)]_allVars

\* a password change has been accepted for an account that has a game in
\* its library, and the stored password is no longer the registered one
C21_Witness ==
  /\ handled.op = "password"
  /\ res.status = 200
  /\ password # hash(Registered)
  /\ Len(gameLibrary) > 0
  /\ stats.totalGames = Len(gameLibrary)

=============================================================================
